---- MODULE Spec2Model ----
(***************************************************************************)
(* The agent control loop of mini-swe-agent (minisweagent/agents/default.py *)
(* DefaultAgent) as a state machine.                                        *)
(*                                                                         *)
(* Text is modelled as a sequence of string fragments; the text is the     *)
(* concatenation of the fragments.  The fragments are chosen so that no    *)
(* concatenation of two of them forms another one: whitespace, the fence,  *)
(* the word bash, the two completion markers and an ordinary word; the     *)
(* output of a timeout also holds runs of one character, which are cut     *)
(* where the timeout template cuts them.                                   *)
(*                                                                         *)
(* The Model and the Environment are collaborators of the agent whose code *)
(* is not part of the modelled sources: what they return or raise is an    *)
(* input of the actions.  Templates are the defaults of AgentConfig.  Spec  *)
(* starts from variable namespaces that share no name and a caller that    *)
(* passes run() the task alone, as mini_swe_runner.run_agent does;         *)
(* SpecRender starts from namespaces that share names.                     *)
(***************************************************************************)
EXTENDS Integers, Sequences, FiniteSets, TLC

VARIABLES
    step_limit,        \* config.step_limit
    cost_limit,        \* config.cost_limit
    messages,          \* self.messages
    n_calls,           \* self.model.n_calls
    cost,              \* self.model.cost
    tool_call_count,   \* self.tool_call_count
    tool_error_count,  \* self.tool_error_count
    tool_latencies,    \* self.tool_latencies
    pc,                \* where the caller / run() stands
    response,          \* the response query() returned to step()
    exit_status,       \* what run() returned: <<>> or <<status, message>>
    extra_template_vars,  \* self.extra_template_vars
    template_vars,        \* render_template: asdict(config) | env vars | model vars
    caller_kwargs,     \* the keyword arguments the caller passes to run()
    runs,              \* history: number of run() calls started
    run_queries,       \* history: model.query calls made by the current run
    answered,          \* history: model.query calls answered since construction
    attempts,          \* history: execute_action invocations since construction
    event,             \* history: how the last operation ended
    env_call,          \* history: the last env.execute call and what it did
    tally,             \* history: execute_action invocations by how they ended
    step_base          \* history: Len(messages) when the last step() began

vars == <<step_limit, cost_limit, messages, n_calls, cost, tool_call_count,
          tool_error_count, tool_latencies, pc, response, exit_status,
          extra_template_vars, template_vars,
          caller_kwargs, runs, run_queries, answered, attempts, event,
          env_call, tally,
          step_base>>

----------------------------------------------------------------------------
(* Bounds of the model *)

\* largest step_limit the configurations range over
MaxStepLimit == 2

\* cap on model.n_calls: no further model query is modelled beyond it
MaxCalls == 2

\* largest cost one model call adds
MaxCallCost == 3

\* run() calls on one agent instance
MaxRuns == 2

(* Program constants *)

\* AgentConfig.cost_limit default
DefaultCostLimit == 3

----------------------------------------------------------------------------
(* Text fragments *)

NL == "\n"
SP == " "
\* three backquotes (a backquote cannot be written in a string)
FENCE == "<fence>"
BASH == "bash"
WORD == "ls"
PRIMARY_MARKER == "COMPLETE_TASK_AND_SUBMIT_FINAL_OUTPUT"
ALIAS_MARKER == "MINI_SWE_AGENT_FINAL_OUTPUT"

\* str.isspace of a fragment
IsSpace(t) == t \in {SP, NL}

\* str.lstrip()
RECURSIVE LStrip(_)
LStrip(s) ==
    IF s = <<>> THEN <<>>
    ELSE IF IsSpace(Head(s)) THEN LStrip(Tail(s))
    ELSE s

\* str.rstrip()
RECURSIVE RStrip(_)
RStrip(s) ==
    IF s = <<>> THEN <<>>
    ELSE IF IsSpace(s[Len(s)]) THEN RStrip(SubSeq(s, 1, Len(s) - 1))
    ELSE s

\* str.strip()
Strip(s) == RStrip(LStrip(s))

\* index of the first line break of s, or Len(s) when there is none
RECURSIVE LineEnd(_, _)
LineEnd(s, i) ==
    IF i >= Len(s) THEN Len(s)
    ELSE IF s[i] = NL THEN i
    ELSE LineEnd(s, i + 1)

\* str.splitlines(keepends=True)
RECURSIVE SplitLines(_)
SplitLines(s) ==
    IF s = <<>> THEN <<>>
    ELSE LET k == LineEnd(s, 1)
         IN  <<SubSeq(s, 1, k)>> \o SplitLines(SubSeq(s, k + 1, Len(s)))

\* "".join(lines)
RECURSIVE Join(_)
Join(lines) ==
    IF lines = <<>> THEN <<>>
    ELSE Head(lines) \o Join(Tail(lines))

\* one backquote; FENCE is three of them
BACKQUOTE == "<backquote>"
\* a byte that is not valid UTF-8, and U+FFFD, what it decodes to
BAD_BYTE == "<byte 0xff>"
REPLACEMENT == "<U+FFFD>"

\* the text of n characters c
RECURSIVE Repeat(_, _)
Repeat(c, n) ==
    IF n = 0 THEN ""
    ELSE IF n % 2 = 0 THEN LET half == Repeat(c, n \div 2) IN half \o half
    ELSE c \o Repeat(c, n - 1)

\* the number of characters a fragment stands for
CharLen(t) ==
    CASE t = FENCE -> 3
      [] t \in {BACKQUOTE, REPLACEMENT, BAD_BYTE} -> 1
      [] OTHER -> Len(t)

\* len(s): the number of characters of a text
RECURSIVE TextLen(_)
TextLen(s) ==
    IF s = <<>> THEN 0 ELSE CharLen(Head(s)) + TextLen(Tail(s))

\* the first k characters of a fragment, 0 < k < CharLen(t)
FragmentHead(t, k) ==
    IF t = FENCE THEN [i \in 1..k |-> BACKQUOTE] ELSE <<SubSeq(t, 1, k)>>

\* the last k characters of a fragment, 0 < k < CharLen(t)
FragmentTail(t, k) ==
    IF t = FENCE THEN [i \in 1..k |-> BACKQUOTE]
    ELSE <<SubSeq(t, Len(t) - k + 1, Len(t))>>

\* s[:k], 0 <= k
RECURSIVE TextHead(_, _)
TextHead(s, k) ==
    IF k = 0 \/ s = <<>> THEN <<>>
    ELSE LET n == CharLen(Head(s))
         IN  IF n <= k THEN <<Head(s)>> \o TextHead(Tail(s), k - n)
             ELSE FragmentHead(Head(s), k)

\* s[-k:], 0 < k
RECURSIVE TextTail(_, _)
TextTail(s, k) ==
    IF s = <<>> THEN <<>>
    ELSE LET last == s[Len(s)]
             n == CharLen(last)
             front == SubSeq(s, 1, Len(s) - 1)
         IN  IF n = k THEN <<last>>
             ELSE IF n < k THEN TextTail(front, k - n) \o <<last>>
             ELSE FragmentTail(last, k)

\* bytes.decode("utf-8", errors="replace"): an invalid byte becomes U+FFFD
decode(bytes) ==
    [i \in 1..Len(bytes) |-> IF bytes[i] = BAD_BYTE THEN REPLACEMENT ELSE bytes[i]]

----------------------------------------------------------------------------
(* Action Parser: re.findall(action_regex, content, re.DOTALL) with         *)
(* action_regex = <fence>bash\s*\n(.*?)\n<fence>                            *)

\* the literal <fence>bash starts at position i
OpensAt(s, i) == i + 1 <= Len(s) /\ s[i] = FENCE /\ s[i + 1] = BASH

\* the literal \n<fence> starts at position q
ClosesAt(s, q) == q + 1 <= Len(s) /\ s[q] = NL /\ s[q + 1] = FENCE

\* positions p at which \s*\n can end when the whitespace run starts at from
NewlineEnds(s, from) ==
    {p \in from..Len(s) : s[p] = NL /\ \A j \in from..p : IsSpace(s[j])}

\* positions q >= from at which the closing \n<fence> matches
Closings(s, from) == {q \in from..Len(s) : ClosesAt(s, q)}

Max(S) == CHOOSE x \in S : \A y \in S : y <= x
Min(S) == CHOOSE x \in S : \A y \in S : x <= y

\* the match of the pattern that starts at i: \s* is greedy and backs off
\* until a closing exists, (.*?) is lazy and stops at the first closing
MatchAt(s, i) ==
    LET ends == {p \in NewlineEnds(s, i + 2) : Closings(s, p + 1) # {}}
    IN  IF ~OpensAt(s, i) \/ ends = {} THEN [found |-> FALSE, group |-> <<>>, last |-> 0]
        ELSE LET p == Max(ends)
                 q == Min(Closings(s, p + 1))
             IN  [found |-> TRUE, group |-> SubSeq(s, p + 1, q - 1), last |-> q + 1]

\* re.findall: the groups of the non-overlapping matches, scanning from i
RECURSIVE FindAllFrom(_, _)
FindAllFrom(s, i) ==
    IF i > Len(s) THEN <<>>
    ELSE LET m == MatchAt(s, i)
         IN  IF m.found THEN <<m.group>> \o FindAllFrom(s, m.last + 1)
             ELSE FindAllFrom(s, i + 1)

FindAll(s) == FindAllFrom(s, 1)

----------------------------------------------------------------------------
(* Template Renderer: the namespace *)

\* a dict that binds every name of names to value
Vars(names, value) == [n \in names |-> value]

NoVars == Vars({}, "")

\* dict union a | b: on a shared key the right operand wins
Merge(a, b) ==
    [n \in (DOMAIN a) \cup (DOMAIN b) |-> IF n \in DOMAIN b THEN b[n] ELSE a[n]]

\* the fields of AgentConfig
ConfigFields ==
    {"system_template", "instance_template", "timeout_template",
     "format_error_template", "action_observation_template", "action_regex",
     "step_limit", "cost_limit"}

\* asdict(self.config)
ConfigVars == Vars(ConfigFields, "config")

\* render_template: asdict(self.config) | env vars | model vars
TemplateVarsOf(envv, modelv) == Merge(Merge(ConfigVars, envv), modelv)

\* render_template: the call .render(**kwargs, **tvars, **extra), tvars
\* being template_vars;
\* raises TypeError when a name is passed by two of the three expansions
RenderRaises(kwargs, tvars, extra) ==
    \/ (DOMAIN kwargs) \cap (DOMAIN tvars) # {}
    \/ (DOMAIN kwargs) \cap (DOMAIN extra) # {}
    \/ (DOMAIN tvars) \cap (DOMAIN extra) # {}

\* what the interpreter raises for a repeated keyword of a call
RepeatedKeyword == "TypeError"

\* the same inside an except block (the timeout message is rendered there):
\* CPython up to 3.11 reports KeyError, from 3.12 on TypeError
RepeatedKeywordInExcept == {"TypeError", "KeyError"}

\* render_template: the namespace the template is rendered in
render_template(kwargs, tvars, extra) ==
    Merge(Merge(kwargs, tvars), extra)

\* run(): self.extra_template_vars |= {"task": task, **kwargs}
ExtraVarsAfterRun(extra, task, kwargs) ==
    Merge(extra, Merge(Vars({"task"}, task), kwargs))

----------------------------------------------------------------------------
(* Template Renderer, on the default templates of AgentConfig *)

system_template == <<"You are a helpful assistant that can do anything.">>

instance_template(task) ==
    <<"Your task: ", task,
      ". Please reply with a single shell command in triple backticks. To finish, the first line of the output of the shell command must be 'COMPLETE_TASK_AND_SUBMIT_FINAL_OUTPUT'.">>

format_error_template == <<"Please always provide EXACTLY ONE action in triple backticks.">>

\* timeout_template: the number of characters from which the output is elided,
\* and the number of characters shown of its head and of its tail
ElideFrom == 10000
ElideKeep == 5000

\* timeout_template with the output shown in full whatever its length
timeout_template_NeverElides(action, output) ==
    <<"The last command <command>">> \o action
    \o <<"</command> timed out and has been killed.\nThe output of the command was:\n">>
    \o <<"<output>\n">> \o output \o <<"\n</output>">>
    \o <<"\nPlease try another command and make sure to avoid those requiring interactive input.">>

\* timeout_template: an output of fewer than 10000 characters is shown in
\* full, a longer one by its first and last 5000 characters and the number of
\* characters left out
timeout_template(action, output) ==
    <<"The last command <command>">> \o action
    \o <<"</command> timed out and has been killed.\nThe output of the command was:\n">>
    \o (IF TextLen(output) < ElideFrom
        THEN <<"<output>\n">> \o output \o <<"\n</output>">>
        ELSE <<"<warning>Output was too long and has been truncated.</warning>\n">>
             \o <<"<output_head>\n">> \o TextHead(output, ElideKeep)
             \o <<"\n</output_head>\n">>
             \o <<"<elided_chars>", ToString(TextLen(output) - ElideFrom),
                  " characters elided</elided_chars>\n">>
             \o <<"<output_tail>\n">> \o TextTail(output, ElideKeep)
             \o <<"\n</output_tail>">>)
    \o <<"\nPlease try another command and make sure to avoid those requiring interactive input.">>

\* repr of a str, as jinja prints a str held in a dict: a line break is escaped
ReprText(s) == [i \in 1..Len(s) |-> IF s[i] = NL THEN "\\n" ELSE s[i]]

\* str of the dict execute_action returns: output | {"action": ...}
ReprOutput(out) ==
    <<"{'output': '">> \o ReprText(out.output)
    \o <<"', 'returncode': ", ToString(out.returncode), ", 'action': '">>
    \o ReprText(out.action) \o <<"'}">>

action_observation_template(out) == <<"Observation: ">> \o ReprOutput(out)

\* add_message: the message appended to the history
Message(role, content) == [role |-> role, content |-> content]

----------------------------------------------------------------------------
(* Termination Detector *)

Markers == {<<ALIAS_MARKER>>, <<PRIMARY_MARKER>>}

\* has_finished without the lstrip() of the output
has_finished_NoLstrip(output) ==
    LET lines == SplitLines(output)
    IN  IF lines # <<>> /\ Strip(lines[1]) \in Markers
        THEN [submitted |-> TRUE, message |-> Join(Tail(lines))]
        ELSE [submitted |-> FALSE, message |-> <<>>]

\* has_finished: whether Submitted is raised, and with which message
has_finished(output) ==
    LET lines == SplitLines(LStrip(output))
    IN  IF lines # <<>> /\ Strip(lines[1]) \in Markers
        THEN [submitted |-> TRUE, message |-> Join(Tail(lines))]
        ELSE [submitted |-> FALSE, message |-> <<>>]

----------------------------------------------------------------------------
(* parse_action: the action, or FormatError *)

\* parse_action that takes the first match when there are several
parse_action_FirstMatch(content) ==
    LET actions == FindAll(content)
    IN  IF Len(actions) >= 1
        THEN [ok |-> TRUE, action |-> Strip(actions[1])]
        ELSE [ok |-> FALSE, action |-> <<>>]

parse_action(content) ==
    LET actions == FindAll(content)
    IN  IF Len(actions) = 1
        THEN [ok |-> TRUE, action |-> Strip(actions[1])]
        ELSE [ok |-> FALSE, action |-> <<>>]

\* the limits check with the step limit compared by < instead of <=
LimitsReached_StrictStep(sl, cl, n, c) ==
    (0 < sl /\ sl < n) \/ (0 < cl /\ cl <= c)

\* the limits check with the cost limit compared by < instead of <=
LimitsReached_StrictCost(sl, cl, n, c) ==
    (0 < sl /\ sl <= n) \/ (0 < cl /\ cl < c)

\* the check without its cost-limit disjunct
LimitsReached_StepOnly(sl, cl, n, c) == 0 < sl /\ sl <= n

\* the check without its step-limit disjunct
LimitsReached_CostOnly(sl, cl, n, c) == 0 < cl /\ cl <= c

\* query: the limits check that raises LimitsExceeded
LimitsReached(sl, cl, n, c) ==
    (0 < sl /\ sl <= n) \/ (0 < cl /\ cl <= c)

----------------------------------------------------------------------------
(* Exceptions and how run() handles them *)

NonTerminatingException == {"FormatError", "ExecutionTimeoutError"}
TerminatingException == {"Submitted", "LimitsExceeded"}

\* a catch-all in place of the NonTerminatingException clause
Catch_All(raised) ==
    IF raised \in TerminatingException THEN "return" ELSE "continue"

\* run(): the except clause that catches what step() raised
Catch(raised) ==
    IF raised \in NonTerminatingException THEN "continue"
    ELSE IF raised \in TerminatingException THEN "return"
    ELSE "propagate"

\* the terminal clause returning without the add_message
MessagesAfterRaise_OnlyRecoverable(msgs, raised, text) ==
    IF Catch(raised) = "continue" THEN Append(msgs, Message("user", text))
    ELSE msgs

\* the except clauses putting str(e) in the place of the last message
MessagesAfterRaise_ReplacesLast(msgs, raised, text) ==
    IF Catch(raised) = "propagate" THEN msgs
    ELSE [msgs EXCEPT ![Len(msgs)] = Message("user", text)]

\* run(): the history after step() raised: both except clauses append str(e)
MessagesAfterRaise(msgs, raised, text) ==
    IF Catch(raised) = "propagate" THEN msgs
    ELSE Append(msgs, Message("user", text))

\* run(): where the loop stands after step() raised
PcAfterRaise(raised) ==
    CASE Catch(raised) = "continue" -> "query"
      [] Catch(raised) = "return" -> "returned"
      [] OTHER -> "raised"

\* run(): the returned pair type(e).__name__, str(e)
ExitAfterRaise(old, raised, text) ==
    IF Catch(raised) = "return" THEN <<raised, text>> ELSE old

----------------------------------------------------------------------------
(* Execution Observer *)

NoValue == [output |-> <<>>, returncode |-> 0, action |-> <<>>]

\* execute_action, line 138: the output a timeout carries, decoded; "" when
\* the exception has no output attribute or a falsy one (None, b"", "")
TimeoutOutput(o) ==
    IF o.form = "none" \/ TextLen(o.output) = 0 THEN <<>> ELSE decode(o.output)

\* the timeout clause setting is_error before it reads the output
ExceptTimeout_ErrorFirst(action, o) ==
    IF o.form = "str" /\ TextLen(o.output) # 0
    THEN [raised |-> "AttributeError", text |-> <<>>,
          is_error |-> TRUE, value |-> NoValue]
    ELSE [raised |-> "ExecutionTimeoutError",
          text |-> timeout_template(action, TimeoutOutput(o)),
          is_error |-> TRUE, value |-> NoValue]

\* execute_action, except (TimeoutError, subprocess.TimeoutExpired): a
\* non-empty str has no decode, the AttributeError leaves the clause before
\* is_error is set; otherwise ExecutionTimeoutError with the rendered message
ExceptTimeout(action, o) ==
    IF o.form = "str" /\ TextLen(o.output) # 0
    THEN [raised |-> "AttributeError", text |-> <<>>,
          is_error |-> FALSE, value |-> NoValue]
    ELSE [raised |-> "ExecutionTimeoutError",
          text |-> timeout_template(action, TimeoutOutput(o)),
          is_error |-> TRUE, value |-> NoValue]

\* execute_action: env.execute raised a BaseException that is not an
\* Exception (KeyboardInterrupt, SystemExit): no except clause runs
NoExcept(o) ==
    [raised |-> "BaseException", text |-> <<>>, is_error |-> FALSE, value |-> NoValue]

\* execute_action without the is_error = False of the except Submitted clause
execute_action_SubmittedKeepsError(action, o) ==
    IF o.kind = "timeout" THEN ExceptTimeout(action, o)
    ELSE IF o.kind = "interrupt" THEN NoExcept(o)
    ELSE IF o.kind = "fault"
    THEN [raised |-> "Fault", text |-> <<>>, is_error |-> TRUE, value |-> NoValue]
    ELSE LET fin == has_finished(o.output)
         IN  IF fin.submitted
             THEN [raised |-> "Submitted", text |-> fin.message,
                   is_error |-> (o.returncode # 0), value |-> NoValue]
             ELSE [raised |-> "", text |-> <<>>,
                   is_error |-> (o.returncode # 0),
                   value |-> [output |-> o.output, returncode |-> o.returncode,
                              action |-> action]]

\* execute_action running has_finished on the partial output of a timeout
execute_action_TimeoutRunsDetector(action, o) ==
    IF o.kind = "interrupt" THEN NoExcept(o)
    ELSE IF o.kind = "fault"
    THEN [raised |-> "Fault", text |-> <<>>, is_error |-> TRUE, value |-> NoValue]
    ELSE LET fin == has_finished(o.output)
         IN  IF fin.submitted
             THEN [raised |-> "Submitted", text |-> fin.message,
                   is_error |-> FALSE, value |-> NoValue]
             ELSE IF o.kind = "timeout" THEN ExceptTimeout(action, o)
             ELSE [raised |-> "", text |-> <<>>,
                   is_error |-> (o.returncode # 0),
                   value |-> [output |-> o.output, returncode |-> o.returncode,
                              action |-> action]]

\* execute_action raising a fault for a non-zero return code
execute_action_NonzeroRaises(action, o) ==
    IF o.kind = "timeout" THEN ExceptTimeout(action, o)
    ELSE IF o.kind = "interrupt" THEN NoExcept(o)
    ELSE IF o.kind = "fault" \/ o.returncode # 0
    THEN [raised |-> "Fault", text |-> <<>>, is_error |-> TRUE, value |-> NoValue]
    ELSE LET fin == has_finished(o.output)
         IN  IF fin.submitted
             THEN [raised |-> "Submitted", text |-> fin.message,
                   is_error |-> FALSE, value |-> NoValue]
             ELSE [raised |-> "", text |-> <<>>,
                   is_error |-> FALSE,
                   value |-> [output |-> o.output, returncode |-> o.returncode,
                              action |-> action]]

\* execute_action running has_finished only when the return code is zero
execute_action_DetectorOnlyOnSuccess(action, o) ==
    IF o.kind = "timeout" THEN ExceptTimeout(action, o)
    ELSE IF o.kind = "interrupt" THEN NoExcept(o)
    ELSE IF o.kind = "fault"
    THEN [raised |-> "Fault", text |-> <<>>, is_error |-> TRUE, value |-> NoValue]
    ELSE LET fin == has_finished(o.output)
         IN  IF fin.submitted /\ o.returncode = 0
             THEN [raised |-> "Submitted", text |-> fin.message,
                   is_error |-> FALSE, value |-> NoValue]
             ELSE [raised |-> "", text |-> <<>>,
                   is_error |-> (o.returncode # 0),
                   value |-> [output |-> o.output, returncode |-> o.returncode,
                              action |-> action]]

\* execute_action up to its finally clause: what it raises or returns, and
\* the value of is_error when the finally clause runs.  o is what
\* env.execute did: returned a dict, raised a timeout, raised a
\* BaseException that is not an Exception ("interrupt"), raised another
\* Exception ("fault"; the same happens when the returned value is no dict
\* of a text output: line 136 or has_finished raises inside the try)
execute_action(action, o) ==
    IF o.kind = "timeout" THEN ExceptTimeout(action, o)
    ELSE IF o.kind = "interrupt" THEN NoExcept(o)
    ELSE IF o.kind = "fault"
    THEN [raised |-> "Fault", text |-> <<>>, is_error |-> TRUE, value |-> NoValue]
    ELSE LET fin == has_finished(o.output)
         IN  IF fin.submitted
             THEN [raised |-> "Submitted", text |-> fin.message,
                   is_error |-> FALSE, value |-> NoValue]
             ELSE [raised |-> "", text |-> <<>>,
                   is_error |-> (o.returncode # 0),
                   value |-> [output |-> o.output, returncode |-> o.returncode,
                              action |-> action]]

\* the count incremented after the try block instead of in finally
CallCountAfter_NotInFinally(count, r) == IF r.raised = "" THEN count + 1 ELSE count

\* execute_action, finally: self.tool_call_count += 1
CallCountAfter(count, r) == count + 1

\* execute_action, finally: if is_error: self.tool_error_count += 1
ErrorCountAfter(count, r) == IF r.is_error THEN count + 1 ELSE count

\* execute_action, finally: self.tool_latencies.append(latency)
LatenciesAfter(lat, latency) == Append(lat, latency)

----------------------------------------------------------------------------
(* Inputs *)

StepLimits == 0..MaxStepLimit
CostLimits == {0, DefaultCostLimit}
CallCosts == {1, MaxCallCost}
Tasks == {"diagnose the alerts"}
Latencies == {"dt"}

\* model responses: no block, one padded block, two blocks, and an opening
\* fence that the pattern consumes as the closing one
Responses ==
    { <<WORD>>,
      <<FENCE, BASH, NL, SP, WORD, SP, NL, FENCE>>,
      <<FENCE, BASH, NL, WORD, NL, FENCE, NL, FENCE, BASH, NL, WORD, NL, FENCE>>,
      <<FENCE, BASH, SP, NL, NL, FENCE, BASH, NL, WORD, NL, FENCE>> }

\* outputs without a marker on the first line (blank; a marker on the
\* second line), and outputs with one
PlainOutputs == { <<SP, NL>>, <<WORD, NL, PRIMARY_MARKER, NL>> }
MarkerOutputs ==
    { <<NL, SP, PRIMARY_MARKER, SP, NL, WORD, NL, WORD>>,
      <<ALIAS_MARKER, NL, WORD, NL>> }

\* the output a timeout carries as bytes: a short one that starts with a
\* marker line and holds an invalid byte, and one of 10001 characters
ShortTimeoutOutputs == { <<PRIMARY_MARKER, NL, WORD, BAD_BYTE>> }
LongTimeoutOutputs == { <<Repeat("x", ElideKeep + 1), Repeat("y", ElideKeep)>> }

\* what env.execute can do: return a dict, raise a timeout that carries
\* bytes, a str or no output, raise a BaseException that is not an Exception,
\* raise another Exception
Outcomes ==
    [kind : {"return"}, form : {"dict"}, output : PlainOutputs \cup MarkerOutputs,
     returncode : {0, 1}]
    \cup [kind : {"timeout"}, form : {"bytes"},
          output : ShortTimeoutOutputs \cup LongTimeoutOutputs, returncode : {0}]
    \cup [kind : {"timeout"}, form : {"none"}, output : {<<>>},
          returncode : {0}]
    \cup [kind : {"timeout"}, form : {"str"}, output : {<<WORD, NL>>},
          returncode : {0}]
    \cup [kind : {"interrupt"}, form : {"none"}, output : {<<>>}, returncode : {0}]
    \cup [kind : {"fault"}, form : {"none"}, output : {<<>>}, returncode : {0}]

\* the env.execute call of action that ended as o
EnvCall(action, o) ==
    [action |-> action, kind |-> o.kind, form |-> o.form, output |-> o.output,
     returncode |-> o.returncode]

NoCall ==
    [action |-> <<>>, kind |-> "none", form |-> "none", output |-> <<>>,
     returncode |-> 0]

\* how an execute_action invocation ended, by what env.execute did
OutcomeClass(o) ==
    CASE o.kind = "timeout" ->
           IF o.form = "str" /\ TextLen(o.output) # 0
           THEN "timeout_str" ELSE "timeout"
      [] o.kind = "interrupt" -> "interrupt"
      [] o.kind = "fault" -> "fault"
      [] OTHER -> IF o.output \in MarkerOutputs
                  THEN (IF o.returncode # 0 THEN "marker_nonzero" ELSE "marker_zero")
                  ELSE (IF o.returncode # 0 THEN "plain_nonzero" ELSE "plain_zero")

OutcomeClasses ==
    {"timeout", "timeout_str", "interrupt", "fault", "marker_nonzero",
     "marker_zero", "plain_nonzero", "plain_zero"}

----------------------------------------------------------------------------
(* The namespaces the collaborators and the caller supply *)

\* env and model variables and run() keyword arguments that share no name
\* with each other, with the configuration or with a render_template call
EnvVarsPlain == Vars({"cwd"}, "env")
ModelVarsPlain == Vars({"model_name"}, "model")

\* env variables: plain, overriding a configuration field, named like the
\* output of an observation, named like the task
EnvVarChoices ==
    { EnvVarsPlain,
      Vars({"cwd", "step_limit"}, "env"),
      Vars({"cwd", "output"}, "env"),
      Vars({"task"}, "env") }

\* model variables: plain, overriding an env variable, named like the
\* actions of a format error
ModelVarChoices ==
    { ModelVarsPlain,
      Vars({"model_name", "cwd"}, "model"),
      Vars({"actions"}, "model") }

\* run() keyword arguments: none, named like a configuration field, named
\* like the output of an observation
CallerKwargChoices ==
    { NoVars, Vars({"step_limit"}, "caller"), Vars({"output"}, "caller") }

\* the keyword arguments of the render_template calls
NoKwargs == NoVars
ObservationKwargs == Vars({"output"}, "call")
TimeoutKwargs == Vars({"action", "output"}, "call")
FormatErrorKwargs == Vars({"actions"}, "call")

----------------------------------------------------------------------------
(* The state machine *)

\* DefaultAgent.__init__ with a fresh model, but for the namespaces
InitAgent ==
    /\ messages = <<>>
    /\ n_calls = 0
    /\ cost = 0
    /\ tool_call_count = 0
    /\ tool_error_count = 0
    /\ tool_latencies = <<>>
    /\ pc = "idle"
    /\ response = <<>>
    /\ exit_status = <<>>
    /\ extra_template_vars = NoVars
    /\ runs = 0
    /\ run_queries = 0
    /\ answered = 0
    /\ attempts = 0
    /\ event = "init"
    /\ env_call = NoCall
    /\ tally = [c \in OutcomeClasses |-> 0]
    /\ step_base = 0

\* the agent of run_agent: no name is supplied twice
Init ==
    /\ InitAgent
    /\ step_limit \in StepLimits
    /\ cost_limit \in CostLimits
    /\ template_vars = TemplateVarsOf(EnvVarsPlain, ModelVarsPlain)
    /\ caller_kwargs = NoVars

\* run() adding the instance message before the system message
InitialMessages_InstanceFirst(old, task) ==
    <<Message("user", instance_template(task)), Message("system", system_template)>>

\* run() without self.messages = []
InitialMessages_KeepsHistory(old, task) ==
    old \o <<Message("system", system_template), Message("user", instance_template(task))>>

\* run(): self.messages = [] and the two add_message calls
InitialMessages(old, task) ==
    <<Message("system", system_template), Message("user", instance_template(task))>>

\* run(task, **kwargs) up to the loop: the history is cleared and rebuilt
Run ==
    /\ pc \in {"idle", "returned", "raised"}
    /\ runs < MaxRuns
    /\ \E task \in Tasks :
         LET extra == ExtraVarsAfterRun(extra_template_vars, task, caller_kwargs)
         IN  /\ extra_template_vars' = extra
             /\ IF ~RenderRaises(NoKwargs, template_vars, extra)
                THEN /\ messages' = InitialMessages(messages,
                           render_template(NoKwargs, template_vars, extra)["task"])
                     /\ pc' = "query"
                     /\ event' = "run"
                ELSE /\ messages' = <<>>
                     /\ pc' = PcAfterRaise(RepeatedKeyword)
                     /\ event' = RepeatedKeyword
    /\ response' = <<>>
    /\ exit_status' = <<>>
    /\ runs' = runs + 1
    /\ run_queries' = 0
    /\ env_call' = NoCall
    /\ step_base' = 0
    /\ UNCHANGED <<step_limit, cost_limit, n_calls, cost, tool_call_count,
                   tool_error_count, tool_latencies, attempts, tally,
                   template_vars, caller_kwargs, answered>>

\* LimitsExceeded raised with a message
LimitsExceededText_Named == <<WORD>>

\* query(): str(LimitsExceeded()), the exception is raised without a message
LimitsExceededText == <<>>

\* step() -> query(): a limit is reached, LimitsExceeded() is raised
QueryLimitsExceeded ==
    /\ pc = "query"
    /\ LimitsReached(step_limit, cost_limit, n_calls, cost)
    /\ messages' = MessagesAfterRaise(messages, "LimitsExceeded", LimitsExceededText)
    /\ pc' = PcAfterRaise("LimitsExceeded")
    /\ exit_status' = ExitAfterRaise(exit_status, "LimitsExceeded", LimitsExceededText)
    /\ event' = "LimitsExceeded"
    /\ env_call' = NoCall
    /\ step_base' = Len(messages)
    /\ UNCHANGED <<step_limit, cost_limit, n_calls, cost, tool_call_count,
                   tool_error_count, tool_latencies, response, runs,
                   run_queries, attempts, tally, extra_template_vars,
                   template_vars, caller_kwargs, answered>>

\* query() returning the response without the add_message
MessagesAfterQuery_NoAppend(msgs, content) == msgs

\* query(): the history after the model answered
MessagesAfterQuery(msgs, content) == Append(msgs, Message("assistant", content))

\* Model.query: the call counter grows by one per query
ModelCallsAfter(n) == n + 1

\* Model.query: the accumulated cost grows by the cost of the call
ModelCostAfter(c, d) == c + d

\* step() -> query(): the model answers and the answer is appended
QueryModel ==
    /\ pc = "query"
    /\ ~LimitsReached(step_limit, cost_limit, n_calls, cost)
    /\ n_calls < MaxCalls
    /\ \E content \in Responses, c \in CallCosts :
         /\ n_calls' = ModelCallsAfter(n_calls)
         /\ cost' = ModelCostAfter(cost, c)
         /\ messages' = MessagesAfterQuery(messages, content)
         /\ response' = content
    /\ pc' = "observe"
    /\ run_queries' = run_queries + 1
    /\ answered' = answered + 1
    /\ event' = "assistant"
    /\ env_call' = NoCall
    /\ step_base' = Len(messages)
    /\ UNCHANGED <<step_limit, cost_limit, tool_call_count, tool_error_count,
                   tool_latencies, exit_status, runs, attempts, tally,
                   extra_template_vars, template_vars, caller_kwargs>>

\* step() -> query(): model.query raises a fault, counted by the model or not
QueryFault ==
    /\ pc = "query"
    /\ ~LimitsReached(step_limit, cost_limit, n_calls, cost)
    /\ n_calls < MaxCalls
    /\ n_calls' \in {n_calls, ModelCallsAfter(n_calls)}
    /\ messages' = MessagesAfterRaise(messages, "Fault", <<>>)
    /\ pc' = PcAfterRaise("Fault")
    /\ exit_status' = ExitAfterRaise(exit_status, "Fault", <<>>)
    /\ run_queries' = run_queries + 1
    /\ event' = "ModelFault"
    /\ env_call' = NoCall
    /\ step_base' = Len(messages)
    /\ UNCHANGED <<step_limit, cost_limit, cost, tool_call_count,
                   tool_error_count, tool_latencies, response, runs, attempts,
                   tally, extra_template_vars, template_vars, caller_kwargs,
                   answered>>

\* step() -> get_observation(response): parse_action raises FormatError, or
\* the TypeError of rendering its message
ParseFormatError ==
    /\ pc = "observe"
    /\ ~parse_action(response).ok
    /\ LET raised == IF RenderRaises(FormatErrorKwargs, template_vars,
                                     extra_template_vars)
                     THEN RepeatedKeyword ELSE "FormatError"
       IN  /\ messages' = MessagesAfterRaise(messages, raised, format_error_template)
           /\ pc' = PcAfterRaise(raised)
           /\ exit_status' = ExitAfterRaise(exit_status, raised, format_error_template)
           /\ event' = raised
    /\ env_call' = NoCall
    /\ UNCHANGED <<step_limit, cost_limit, n_calls, cost, tool_call_count,
                   tool_error_count, tool_latencies, response, runs,
                   run_queries, attempts, tally, step_base,
                   extra_template_vars, template_vars, caller_kwargs, answered>>

\* step() -> get_observation(response): the parsed action is executed; the
\* observation is appended, or what execute_action raised reaches run().
\* The timeout message is rendered inside execute_action, the observation
\* after it returned: a repeated keyword in either leaves the metrics counted
ExecuteAction ==
    /\ pc = "observe"
    /\ \E parsed \in {parse_action(response)} :
         /\ parsed.ok
         /\ \E o \in Outcomes, latency \in Latencies :
              \E r \in {execute_action(parsed.action, o)} :
                \E raised \in
                     (IF /\ r.raised = ""
                         /\ RenderRaises(ObservationKwargs, template_vars,
                                         extra_template_vars)
                      THEN {RepeatedKeyword}
                      ELSE IF /\ r.raised = "ExecutionTimeoutError"
                              /\ RenderRaises(TimeoutKwargs, template_vars,
                                              extra_template_vars)
                      THEN RepeatedKeywordInExcept
                      ELSE {r.raised}) :
                  /\ tool_call_count' = CallCountAfter(tool_call_count, r)
                  /\ tool_error_count' = ErrorCountAfter(tool_error_count, r)
                  /\ tool_latencies' = LatenciesAfter(tool_latencies, latency)
                  /\ env_call' = EnvCall(parsed.action, o)
                  /\ tally' = [tally EXCEPT ![OutcomeClass(o)] = @ + 1]
                  /\ IF raised = ""
                     THEN /\ messages' = Append(messages,
                                Message("user", action_observation_template(r.value)))
                          /\ pc' = "query"
                          /\ exit_status' = exit_status
                          /\ event' = "observation"
                     ELSE /\ messages' = MessagesAfterRaise(messages, raised, r.text)
                          /\ pc' = PcAfterRaise(raised)
                          /\ exit_status' = ExitAfterRaise(exit_status, raised, r.text)
                          /\ event' = raised
    /\ attempts' = attempts + 1
    /\ UNCHANGED <<step_limit, cost_limit, n_calls, cost, response, runs,
                   run_queries, step_base, extra_template_vars,
                   template_vars, caller_kwargs, answered>>

Next ==
    \/ Run
    \/ QueryLimitsExceeded
    \/ QueryModel
    \/ QueryFault
    \/ ParseFormatError
    \/ ExecuteAction

Spec == Init /\ [][Next]_vars

\* an agent with step_limit 1 whose collaborators and caller may supply a
\* name twice
InitRender ==
    /\ InitAgent
    /\ step_limit = 1
    /\ cost_limit = 0
    /\ \E envv \in EnvVarChoices, modelv \in ModelVarChoices :
         template_vars = TemplateVarsOf(envv, modelv)
    /\ caller_kwargs \in CallerKwargChoices

SpecRender == InitRender /\ [][Next]_vars

----------------------------------------------------------------------------
(* Properties *)

LastMessage == messages[Len(messages)]

\* the step limit alone is reached
StepLimitReached == 0 < step_limit /\ step_limit <= n_calls

\* the cost limit alone is reached
CostLimitReached == 0 < cost_limit /\ cost_limit <= cost

\* C1: with step_limit = N > 0 and n_calls starting at 0, a run queries the
\* model at most N times; the query() call made once N queries are counted
\* raises LimitsExceeded without contacting the model (n_calls stays N), and
\* run returns in that step with no execute_action attempt.
C1_StepLimitBoundsQueries ==
    /\ [](step_limit > 0 => run_queries <= step_limit)
    /\ [][(pc = "query" /\ StepLimitReached)
            => /\ n_calls' = n_calls
               /\ run_queries' = run_queries
               /\ tool_call_count' = tool_call_count
               /\ attempts' = attempts
               /\ pc' = "returned"
               /\ exit_status'[1] = "LimitsExceeded"]_vars

\* C1 witness: the first run made N = step_limit queries and its next query()
\* raised LimitsExceeded on the step limit, the cost limit not being reached
C1_Witness ==
    /\ event = "LimitsExceeded"
    /\ runs = 1
    /\ step_limit = 2
    /\ run_queries = step_limit
    /\ n_calls = step_limit
    /\ ~CostLimitReached
    /\ pc = "returned"

\* C2: with cost_limit = C > 0, a query() entered with cost >= C raises
\* LimitsExceeded before contacting the model: no model query, no assistant
\* message, run returns LimitsExceeded.  With cost_limit = 0, LimitsExceeded
\* is raised only when the step limit is reached, whatever the cost.
C2_CostLimitStopsQuery ==
    /\ [][(pc = "query" /\ CostLimitReached)
            => /\ n_calls' = n_calls
               /\ cost' = cost
               /\ run_queries' = run_queries
               /\ messages' = Append(messages, Message("user", <<>>))
               /\ pc' = "returned"
               /\ exit_status' = <<"LimitsExceeded", <<>>>>]_vars
    /\ [][(pc = "query" /\ cost_limit = 0 /\ ~StepLimitReached)
            => event' # "LimitsExceeded"]_vars

\* C2 witness: run returned LimitsExceeded on the cost limit alone, with the
\* accumulated cost exactly at the limit
C2_Witness ==
    /\ event = "LimitsExceeded"
    /\ cost_limit > 0
    /\ cost = cost_limit
    /\ ~StepLimitReached
    /\ pc = "returned"

\* the output after lstrip()
C3_Stripped(out) == LStrip(out)

\* where the first line of s ends
C3_Break(s) ==
    IF \E i \in 1..Len(s) : s[i] = NL
    THEN Min({i \in 1..Len(s) : s[i] = NL})
    ELSE Len(s)

\* the first line of the stripped output starts with nothing but a marker
C3_MarkerFirst(out) ==
    LET s == C3_Stripped(out)
    IN  Strip(SubSeq(s, 1, C3_Break(s))) \in {<<PRIMARY_MARKER>>, <<ALIAS_MARKER>>}

\* the text after the first line of the stripped output
C3_Remaining(out) ==
    LET s == C3_Stripped(out)
    IN  SubSeq(s, C3_Break(s) + 1, Len(s))

\* C3: when env.execute returns an output whose first line, after stripping
\* leading whitespace, is a completion marker, run returns in that step with
\* status Submitted and the remaining lines as message; for any other output
\* nothing is signalled and the loop goes on with the observation.
C3_MarkerSubmits ==
    [][(attempts' = attempts + 1 /\ env_call'.kind = "return")
         => IF C3_MarkerFirst(env_call'.output)
            THEN /\ pc' = "returned"
                 /\ exit_status' = <<"Submitted", C3_Remaining(env_call'.output)>>
            ELSE /\ pc' = "query"
                 /\ exit_status' = <<>>
                 /\ event' = "observation"]_vars

\* C3 witness: an output with blank lines and spaces before the primary
\* marker ended the run as Submitted with the two remaining lines as message
C3_Witness ==
    /\ pc = "returned"
    /\ env_call.kind = "return"
    /\ env_call.output = <<NL, SP, PRIMARY_MARKER, SP, NL, WORD, NL, WORD>>
    /\ exit_status = <<"Submitted", <<WORD, NL, WORD>>>>

\* C4: a response with zero or several matches of the action pattern raises
\* FormatError and executes nothing: the metrics are unchanged, the history
\* (which ends with the assistant message) gains one user message equal to
\* the format error text, and the loop goes on.  With exactly one match the
\* trimmed match is what env.execute receives.
C4_FormatErrorExecutesNothing ==
    /\ [](pc = "observe" => LastMessage = Message("assistant", response))
    /\ [][(pc = "observe" /\ Len(FindAll(response)) # 1)
            => /\ attempts' = attempts
               /\ tool_call_count' = tool_call_count
               /\ tool_error_count' = tool_error_count
               /\ tool_latencies' = tool_latencies
               /\ messages' = Append(messages, Message("user", format_error_template))
               /\ pc' = "query"]_vars
    /\ [][(pc = "observe" /\ Len(FindAll(response)) = 1)
            => /\ attempts' = attempts + 1
               /\ env_call'.action = Strip(FindAll(response)[1])]_vars

\* C4 witness: a response with two action blocks was answered by the format
\* error message and nothing had been executed
C4_Witness ==
    /\ event = "FormatError"
    /\ Len(FindAll(response)) = 2
    /\ attempts = 0
    /\ tool_call_count = 0
    /\ pc = "query"

\* C5: tool_call_count is incremented exactly once per execute_action
\* attempt, whatever the exit path, equals the number of attempts, and never
\* decreases.
C5_CallCountCountsAttempts ==
    /\ [](tool_call_count = attempts)
    /\ [][attempts' = attempts + 1 => tool_call_count' = tool_call_count + 1]_vars
    /\ [][tool_call_count' >= tool_call_count]_vars

\* C5 witness: an attempt ended by a timeout and one ended by a Submitted
\* signal or by another fault have both been counted
C5_Witness ==
    /\ tool_call_count = 2
    /\ tally["timeout"] = 1
    /\ tally["fault"] + tally["marker_nonzero"] = 1

\* C6 (as claimed): tool_error_count counts exactly the attempts that ended
\* with a non-zero return code (a completion marker in the output or not) or
\* with a timeout.
C6_ErrorCountIsNonzeroAndTimeouts ==
    tool_error_count
      = tally["timeout"] + tally["plain_nonzero"] + tally["marker_nonzero"]

\* C6 (amended): tool_error_count counts exactly the attempts that ended with
\* a timeout whose output was read (absent, empty or bytes), with another
\* Exception raised by env.execute, or with a non-zero return code and no
\* completion marker at the start of the output; an attempt that raises
\* Submitted counts as a success whatever its return code, and an attempt
\* ended by a BaseException that is not an Exception, or by a timeout that
\* carries a non-empty str, adds nothing.
C6_ErrorCountIsFailuresNotSubmitted ==
    /\ tool_error_count = tally["timeout"] + tally["fault"] + tally["plain_nonzero"]
    /\ tool_call_count - tool_error_count
         = tally["marker_zero"] + tally["marker_nonzero"] + tally["plain_zero"]
           + tally["interrupt"] + tally["timeout_str"]

\* C6 witness: of a non-zero return without a marker and a non-zero return
\* with a marker, only the first has been counted as an error
C6_Witness ==
    /\ tally["plain_nonzero"] = 1
    /\ tally["marker_nonzero"] = 1
    /\ tool_call_count = 2
    /\ tool_error_count = 1

\* the messages appended since the last step() began
SinceStep == SubSeq(messages, step_base + 1, Len(messages))

AssistantCount(seq) == Cardinality({i \in 1..Len(seq) : seq[i].role = "assistant"})

\* a step() invocation has ended and nothing was done since
StepEnded ==
    event \in {"LimitsExceeded", "ModelFault", "FormatError", "observation",
               "Submitted", "ExecutionTimeoutError", "Fault",
               "BaseException", "AttributeError"}

\* the user message a step that does not end the run appends
C7_StepAnswer ==
    CASE event = "observation" ->
           action_observation_template(
               [output |-> env_call.output, returncode |-> env_call.returncode,
                action |-> env_call.action])
      [] event = "FormatError" -> format_error_template
      [] OTHER -> timeout_template(env_call.action, TimeoutOutput(env_call))

\* C7 (as claimed): every step, whatever its outcome, appends exactly one
\* assistant message and, unless the run terminates in it, exactly one user
\* message after it.  Stated here for the steps that end without a
\* propagating fault.
C7_EveryStepAppendsAssistant ==
    (StepEnded /\ event \notin {"ModelFault", "Fault", "BaseException",
                                "AttributeError"}) =>
      /\ AssistantCount(SinceStep) = 1
      /\ pc = "query" => (Len(SinceStep) = 2 /\ SinceStep[2].role = "user")

\* C7 (amended): every step in which the model is queried and answers appends
\* exactly one assistant message, first, and, unless the run terminates in
\* that step, exactly one user message after it: the rendered observation or
\* the message of the recoverable condition.  A step whose query() raises
\* LimitsExceeded, or in which the model query itself faults, appends no
\* assistant message and ends the run.
C7_AnsweredStepAppendsAssistant ==
    StepEnded =>
      /\ IF event \in {"LimitsExceeded", "ModelFault"}
         THEN AssistantCount(SinceStep) = 0 /\ pc # "query"
         ELSE /\ AssistantCount(SinceStep) = 1
              /\ SinceStep[1] = Message("assistant", response)
      /\ pc = "query" => /\ Len(SinceStep) = 2
                         /\ SinceStep[2] = Message("user", C7_StepAnswer)

\* C7 witness: a step appended an assistant message and an observation, and
\* the next step raised LimitsExceeded and appended no assistant message
C7_Witness ==
    /\ event = "LimitsExceeded"
    /\ Len(messages) = 5
    /\ messages[3].role = "assistant"
    /\ messages[4].role = "user"
    /\ step_base = 4
    /\ AssistantCount(SinceStep) = 0

\* C8: run() returns only when a terminal condition is raised: the status is
\* Submitted or LimitsExceeded, the last message of the history is a user
\* message whose content is the returned message, and nothing more happens in
\* that run (the only step from there is another call of run()).
C8_RunReturnsOnTerminal ==
    /\ [](pc = "returned"
            => /\ Len(exit_status) = 2
               /\ exit_status[1] \in {"Submitted", "LimitsExceeded"}
               /\ LastMessage = Message("user", exit_status[2]))
    /\ [](pc # "returned" => exit_status = <<>>)
    /\ [][(pc # "returned" /\ pc' = "returned")
            => /\ event' \in {"Submitted", "LimitsExceeded"}
               /\ exit_status'[1] = event'
               /\ Len(messages') = Len(messages) + 1]_vars
    /\ [][pc = "returned" => (pc' = "query" /\ runs' = runs + 1)]_vars

\* C8 witness: run returned Submitted and the message it returned is the last
\* user message of the history
C8_Witness ==
    /\ pc = "returned"
    /\ exit_status = <<"Submitted", <<WORD, NL>>>>
    /\ LastMessage = Message("user", <<WORD, NL>>)

\* C9: a fault of the model or of the environment that is neither recoverable
\* nor terminal propagates out of run(): no status is returned, no message is
\* appended for it, and no further step is performed (the only step from
\* there is another call of run()).
C9_FaultPropagates ==
    /\ [][(/\ attempts' = attempts + 1
            /\ OutcomeClass(env_call') \in {"fault", "interrupt", "timeout_str"})
            => /\ pc' = "raised"
               /\ messages' = messages
               /\ exit_status' = <<>>]_vars
    /\ [][(run_queries' = run_queries + 1 /\ event' = "ModelFault")
            => /\ pc' = "raised"
               /\ messages' = messages
               /\ exit_status' = <<>>]_vars
    /\ [][pc = "raised" => (pc' = "query" /\ runs' = runs + 1)]_vars

\* C9 witness: env.execute raised a fault after one full step and run() was
\* left with the history ending in the assistant message of the faulting step
C9_Witness ==
    /\ pc = "raised"
    /\ env_call.kind = "fault"
    /\ Len(messages) = 5
    /\ LastMessage.role = "assistant"

\* text holds part as a contiguous piece
Embeds(text, part) ==
    \E i \in 0..(Len(text) - Len(part)) : SubSeq(text, i + 1, i + Len(part)) = part

\* the timeout message shows the output as timeout_template prescribes: in
\* full below 10000 characters, else a warning, its first and last 5000
\* characters and the number of characters left out
C10_Shows(content, output) ==
    IF TextLen(output) < ElideFrom
    THEN /\ Embeds(content, <<"<output>\n">> \o output \o <<"\n</output>">>)
         /\ ~Embeds(content, <<"<warning>Output was too long and has been truncated.</warning>\n">>)
    ELSE /\ Embeds(content, <<"<warning>Output was too long and has been truncated.</warning>\n">>)
         /\ Embeds(content, <<"<output_head>\n">> \o TextHead(output, ElideKeep)
                             \o <<"\n</output_head>\n">>)
         /\ Embeds(content, <<"<output_tail>\n">> \o TextTail(output, ElideKeep)
                             \o <<"\n</output_tail>">>)
         /\ Embeds(content, <<"<elided_chars>", ToString(TextLen(output) - ElideFrom)>>)
         /\ TextLen(TextHead(output, ElideKeep)) = ElideKeep
         /\ TextLen(TextTail(output, ElideKeep)) = ElideKeep
         /\ ~Embeds(content, <<"<output>\n">>)

\* C10: every timeout of env.execute, whatever partial output it carries, is
\* recoverable: the step raises ExecutionTimeoutError, the run does not
\* terminate, the rendered timeout message, which embeds the partial output
\* the way the timeout template shows it, is appended as the user message
\* after the step's assistant message, the loop goes on, and the partial
\* output is not searched for a completion marker.
C10_TimeoutIsRecoverable ==
    [][(attempts' = attempts + 1 /\ env_call'.kind = "timeout")
         => /\ event' = "ExecutionTimeoutError"
            /\ pc' = "query"
            /\ exit_status' = <<>>
            /\ LastMessage = Message("assistant", response)
            /\ Len(messages') = Len(messages) + 1
            /\ SubSeq(messages', 1, Len(messages)) = messages
            /\ messages'[Len(messages')].role = "user"
            /\ C10_Shows(messages'[Len(messages')].content,
                         TimeoutOutput(env_call'))]_vars

----------------------------------------------------------------------------
(* Non-zero return codes, the first messages, the cost slack, the detector *)

\* the observation get_observation appends for what env.execute returned
ObservationOf(call) ==
    Message("user", action_observation_template(
        [output |-> call.output, returncode |-> call.returncode,
         action |-> call.action]))

\* C11: an execution that returns a non-zero return code and an output that
\* does not start with a completion marker is data, not a fault: the action
\* is executed once, its rendered observation is appended as a user message,
\* nothing is raised to run's loop and the loop goes on with the next step.
C11_NonzeroReturnIsData ==
    [][(/\ attempts' = attempts + 1
        /\ env_call'.kind = "return"
        /\ env_call'.returncode # 0
        /\ env_call'.output \in PlainOutputs)
         => /\ tool_call_count' = tool_call_count + 1
            /\ messages' = Append(messages, ObservationOf(env_call'))
            /\ event' = "observation"
            /\ pc' = "query"
            /\ exit_status' = exit_status
            /\ n_calls' = n_calls]_vars

\* C11 witness: a command returned 1 without a marker, its observation is the
\* last message and the loop is about to query again
C11_Witness ==
    /\ event = "observation"
    /\ env_call.returncode = 1
    /\ env_call.output = <<WORD, NL, PRIMARY_MARKER, NL>>
    /\ pc = "query"
    /\ LastMessage = ObservationOf(env_call)

\* C12: whichever sources supply a name twice, render_template resolves the
\* collision by precedence: rendering succeeds, and every call-specific
\* keyword variable has its call-specific value in the namespace.
C12_CollisionsResolvedByPrecedence ==
    /\ event \notin RepeatedKeywordInExcept
    /\ runs > 0 => \A kwargs \in {NoKwargs, ObservationKwargs, TimeoutKwargs, FormatErrorKwargs} :
         /\ ~RenderRaises(kwargs, template_vars, extra_template_vars)
         /\ \A n \in DOMAIN kwargs :
              render_template(kwargs, template_vars, extra_template_vars)[n] = "call"

\* the history holds the system message, then the instance message of the
\* task, and no other system message
StartsWithSystemAndInstance ==
    /\ Len(messages) >= 2
    /\ messages[1] = Message("system", system_template)
    /\ messages[2] = Message("user", instance_template(extra_template_vars["task"]))
    /\ \A i \in 2..Len(messages) : messages[i].role # "system"

\* C13: in every run the history before the first model query is exactly the
\* system message followed by the instance message with the task bound; in
\* every later state of the run they are still the first two messages, and
\* no other system message is appended.
C13_HistoryStartsWithSystemAndInstance ==
    /\ runs > 0 => StartsWithSystemAndInstance
    /\ (runs > 0 /\ run_queries = 0 /\ event = "run") => Len(messages) = 2

\* C13 witness: a run of two steps or more that ended submitted, the two
\* messages still first
C13_Witness ==
    /\ event = "Submitted"
    /\ Len(messages) >= 6
    /\ StartsWithSystemAndInstance

\* C14: with cost_limit = C > 0 and every model call costing at most
\* M = MaxCallCost, the accumulated cost is below C + M in every state.
C14_CostOvershootBelowOneCall ==
    cost_limit > 0 => cost < cost_limit + MaxCallCost

\* C14 witness: the cost went over the limit by a query issued below it, and
\* the next query() raised LimitsExceeded
C14_Witness ==
    /\ cost_limit > 0
    /\ cost > cost_limit
    /\ event = "LimitsExceeded"

\* C15: the detector runs after every execution that returns, whatever the
\* return code: an output that starts with a marker ends the run as
\* Submitted, no observation is appended for it, and the attempt is already
\* in tool_call_count and in the latencies when run() returns.
C15_DetectorRunsWhateverReturnCode ==
    [][(/\ attempts' = attempts + 1
        /\ env_call'.kind = "return"
        /\ env_call'.output \in MarkerOutputs)
         => /\ pc' = "returned"
            /\ exit_status' = <<"Submitted", has_finished(env_call'.output).message>>
            /\ messages' = Append(messages, Message("user", exit_status'[2]))
            /\ messages'[Len(messages')] # ObservationOf(env_call')
            /\ tool_call_count' = tool_call_count + 1
            /\ Len(tool_latencies') = Len(tool_latencies) + 1]_vars

\* C15 witness: a command returned 1 with a marker on its first line and the
\* run returned Submitted with the attempt counted
C15_Witness ==
    /\ pc = "returned"
    /\ exit_status[1] = "Submitted"
    /\ env_call.kind = "return"
    /\ env_call.returncode = 1
    /\ tool_call_count = attempts
    /\ Len(tool_latencies) = attempts

----------------------------------------------------------------------------
(* Termination, the order of the history, successive runs *)

\* run() is inside its loop / run() has returned or raised
Running == pc \in {"query", "observe"}
Terminal == pc \in {"returned", "raised"}

\* step(): whatever a step can do
Step ==
    QueryLimitsExceeded \/ QueryModel \/ QueryFault \/ ParseFormatError \/ ExecuteAction

\* a step can be taken: run() is in its loop, and the bound MaxCalls on the
\* model's counter does not keep the query from being made
StepEnabled ==
    /\ Running
    /\ \/ pc = "observe"
       \/ LimitsReached(step_limit, cost_limit, n_calls, cost)
       \/ n_calls < MaxCalls

\* StepEnabled is ENABLED <<Step>>_vars, and the steps are the transitions
\* that leave a state of the loop: both hold of Spec
StepEnabledIsEnabled == StepEnabled <=> ENABLED <<Step>>_vars
StepsAreTheLoop == [][Step <=> Running]_vars

\* WF_vars(Step), written with StepEnabled for ENABLED <<Step>>_vars and
\* <<Running>>_vars for <<Step>>_vars
StepFairness == ([]<>(~StepEnabled)) \/ ([]<><<Running>>_vars)

\* run() is a synchronous while True loop: while it runs, the next call of
\* step() is always made, and every call the step blocks on returns or raises
FairSpec == Spec /\ StepFairness

\* C16: with step_limit = N > 0 every run makes at most N model queries and
\* eventually reaches a terminal state (Submitted, LimitsExceeded or a
\* propagated fault), whatever the model answers; with step_limit = 0 and
\* cost_limit = 0 a run that has executed no marker output and met no fault
\* is still in its loop and its next query is not refused.
C16_RunTerminatesWithinStepLimit ==
    /\ [](step_limit > 0 => run_queries <= step_limit)
    /\ ((step_limit > 0 /\ Running) ~> Terminal)
    /\ []((step_limit = 0 /\ cost_limit = 0 /\ runs > 0
            /\ event # "Submitted" /\ pc # "raised")
          => (Running /\ ~LimitsReached(step_limit, cost_limit, n_calls, cost)))

\* C16 witness: with step_limit = 2 both steps of the first run ended in a
\* timeout and the third query() ended the run with LimitsExceeded
C16_Witness ==
    /\ step_limit = 2
    /\ runs = 1
    /\ run_queries = 2
    /\ tally["timeout"] = 2
    /\ Terminal
    /\ event = "LimitsExceeded"

IsPrefix(a, b) == Len(a) <= Len(b) /\ SubSeq(b, 1, Len(a)) = a

\* C17: within a run every transition keeps the history as a prefix of the
\* new history, and the user message that answers a step (observation,
\* format error, timeout, submission) is appended right after that step's
\* assistant message.
C17_HistoryAppendOnlyInTurnOrder ==
    /\ [][runs' = runs => IsPrefix(messages, messages')]_vars
    /\ [][(/\ runs' = runs
           /\ messages' # messages
           /\ messages'[Len(messages')].role = "user"
           /\ event' # "LimitsExceeded")
            => /\ Len(messages') = Len(messages) + 1
               /\ Len(messages) = step_base + 1
               /\ LastMessage = Message("assistant", response)]_vars

\* C17 witness: a timeout was caught in the second step of a run: its message
\* follows the assistant message of that step and the first step's messages
\* are still in place
C17_Witness ==
    /\ event = "ExecutionTimeoutError"
    /\ Len(messages) = 6
    /\ messages[3].role = "assistant"
    /\ messages[4].role = "user"
    /\ messages[5].role = "assistant"
    /\ messages[6].role = "user"

\* C18: run() called again starts the history with the new system and
\* instance messages alone and leaves tool_call_count, tool_error_count and
\* tool_latencies as they were; no transition resets them.
C18_RunAgainClearsHistoryKeepsMetrics ==
    /\ [][runs' = runs + 1
            => /\ messages' = <<Message("system", system_template),
                                Message("user", instance_template(extra_template_vars'["task"]))>>
               /\ UNCHANGED <<tool_call_count, tool_error_count, tool_latencies>>]_vars
    /\ [][/\ tool_call_count' >= tool_call_count
          /\ tool_error_count' >= tool_error_count
          /\ IsPrefix(tool_latencies, tool_latencies')]_vars

\* C18 witness: a second run has just started after a first run that left
\* four messages or more and counted two attempts, one of them an error
C18_Witness ==
    /\ runs = 2
    /\ event = "run"
    /\ Len(messages) = 2
    /\ tool_call_count = 2
    /\ tool_error_count = 1
    /\ Len(tool_latencies) = 2

\* C19: a marker output in the step whose query reached the limit ends the
\* run as Submitted; LimitsExceeded is raised only by a step that begins with
\* a limit reached, and then the returned message and the last user message
\* are the empty string.
C19_MarkerInLimitStepWins ==
    /\ [][(/\ pc = "observe"
           /\ LimitsReached(step_limit, cost_limit, n_calls, cost)
           /\ attempts' = attempts + 1
           /\ env_call'.kind = "return"
           /\ env_call'.output \in MarkerOutputs)
            => (pc' = "returned" /\ exit_status'[1] = "Submitted")]_vars
    /\ [][event' = "LimitsExceeded"
            => /\ pc = "query"
               /\ LimitsReached(step_limit, cost_limit, n_calls, cost)
               /\ pc' = "returned"
               /\ exit_status' = <<"LimitsExceeded", <<>>>>
               /\ messages' = Append(messages, Message("user", <<>>))]_vars

\* C19 witness: with step_limit = N > 0 the action of the N-th query printed
\* a marker and the run returned Submitted
C19_Witness ==
    /\ step_limit > 0
    /\ n_calls = step_limit
    /\ run_queries = step_limit
    /\ pc = "returned"
    /\ exit_status[1] = "Submitted"

\* C20: the limits bound successive runs jointly: with step_limit = N > 0
\* the model never counts or answers more than N queries over all runs, and
\* a run started with a limit reached returns LimitsExceeded with a history
\* of exactly the system, instance and empty user message, without a model
\* query or an execution.
C20_LimitsBoundRunsJointly ==
    /\ [](step_limit > 0 => (answered <= n_calls /\ n_calls <= step_limit))
    /\ [][(/\ pc = "query"
           /\ run_queries = 0
           /\ LimitsReached(step_limit, cost_limit, n_calls, cost))
            => /\ pc' = "returned"
               /\ exit_status'[1] = "LimitsExceeded"
               /\ messages' =
                    <<Message("system", system_template),
                      Message("user", instance_template(extra_template_vars["task"])),
                      Message("user", <<>>)>>
               /\ UNCHANGED <<n_calls, cost, answered, run_queries,
                              attempts, tool_call_count>>]_vars

\* C20 witness: the first run used up the step limit and the second run
\* returned LimitsExceeded with three messages and no query
C20_Witness ==
    /\ runs = 2
    /\ step_limit > 0
    /\ cost_limit = 0
    /\ n_calls = step_limit
    /\ run_queries = 0
    /\ pc = "returned"
    /\ exit_status[1] = "LimitsExceeded"
    /\ Len(messages) = 3

====
